---- MODULE Spec2Model ----
(***************************************************************************)
(* Model of demo-tx-system: the ledger driver `run` of src/src/main.rs     *)
(* with its own Account::apply_tx, and the library versions of the         *)
(* account state machine (src/src/account.rs) and of the transaction       *)
(* record (src/src/transaction.rs), which are exercised by direct calls    *)
(* of apply_tx the way the unit tests call it.                             *)
(*                                                                         *)
(* A Decimal is a record [coeff, scale] standing for coeff * 10^-scale;    *)
(* its sign bit is set exactly when coeff < 0.  Balances are kept as the   *)
(* exact value in units of 10^-FracDigits: rust_decimal adds, subtracts    *)
(* and compares exactly (by value, not by representation) while no         *)
(* overflow of the 96-bit mantissa occurs, which the bounds exclude.       *)
(* An Option<T> is a sequence: << >> for None, <<x>> for Some(x).          *)
(***************************************************************************)
EXTENDS Integers, Sequences, FiniteSets, Bags, TLC

\* ---------------------------------------------------------------- bounds
\* The inputs of `run` are the streams of at most MaxEvents rows, and the
\* longer streams of at most MaxDeepEvents rows whose rows after the first
\* MaxEvents are read while client 1 is the only client with an account and
\* are rows of client 1 or a Dispute, Resolve or Chargeback of any client.
\* A direct caller of apply_tx makes at most MaxCalls steps.
MaxEvents == 2
MaxCalls == 3
MaxDeepEvents == 6
MaxClient == 2
MaxTxId == 2
MaxCoeff == 1

\* ------------------------------------------------------------- constants
DECIMAL_PRECISION == 4

\* The finest scale among the modelled inputs: one place more than allowed.
FracDigits == DECIMAL_PRECISION + 1

RECURSIVE Pow10(_)
Pow10(n) == IF n = 0 THEN 1 ELSE 10 * Pow10(n - 1)

\* The amounts of the modelled rows: -0.0001, 0.0000, 0.0001 .. MaxCoeff/10^4
\* at the allowed precision, and 0.00001, which has one place too many.
Decimal ==
    [coeff : (0 - 1)..MaxCoeff, scale : {DECIMAL_PRECISION}]
    \cup {[coeff |-> 1, scale |-> FracDigits]}

\* Decimal::default() is zero with scale 0.
DecimalDefault == [coeff |-> 0, scale |-> 0]

\* The exact value of a Decimal, in units of 10^-FracDigits.
Units(d) == d.coeff * Pow10(FracDigits - d.scale)

\* Decimal::is_sign_negative reads the sign bit; a negative zero is not among
\* the modelled amounts.
is_sign_negative(d) == d.coeff < 0

\* Option<Decimal>::unwrap_or_default
unwrap_or_default(amount) == IF amount = << >> THEN DecimalDefault ELSE amount[1]

ClientIds == 1..MaxClient
TxIds == 1..MaxTxId
TransactionType == {"Chargeback", "Deposit", "Dispute", "Resolve", "Withdrawal"}
TransactionState == {"Open", "ActiveDispute", "ChargedBack"}

\* impl Default for TransactionState
TransactionStateDefault == "Open"

\* The decoded rows: `state` is #[serde(skip)], so it takes its default.
\* Deposit and Withdrawal rows carry an amount, the other rows carry none.
Transaction ==
    [_type : {"Deposit", "Withdrawal"}, client : ClientIds, tx : TxIds,
     amount : {<<d>> : d \in Decimal}, state : {TransactionStateDefault}]
    \cup
    [_type : {"Dispute", "Resolve", "Chargeback"}, client : ClientIds, tx : TxIds,
     amount : {<< >>}, state : {TransactionStateDefault}]

\* Placeholder of the loop variable `tx` while no row has been decoded.
NoTransaction ==
    [_type |-> "None", client |-> 0, tx |-> 0, amount |-> << >>,
     state |-> TransactionStateDefault]

\* #[derive(Default)] on Account
AccountDefault ==
    [client |-> 0, available |-> 0, held |-> 0, total |-> 0, locked |-> FALSE]

\* Account { client, ..Default::default() }, which is also Account::new
AccountNew(client) == [AccountDefault EXCEPT !.client = client]

\* ------------------------------------------------- src/src/transaction.rs
valid_tx_data(t) ==
    LET amount == unwrap_or_default(t.amount)
    IN  ~is_sign_negative(amount) /\ amount.scale <= DECIMAL_PRECISION

\* --------------------------------------------------------- src/src/main.rs
\* Mutant: only withdrawals are checked for a fresh TxId.
requires_unique_tx_withdrawal_only(t) == t._type = "Withdrawal"

requires_unique_tx(t) ==
    CASE t._type \in {"Withdrawal", "Deposit"} -> TRUE
      [] t._type \in {"Dispute", "Resolve", "Chargeback"} -> FALSE

\* Mutant: withdrawals are kept in history as well.
requires_history_withdrawal_too(t) == t._type \in {"Deposit", "Withdrawal"}

requires_history(t) ==
    CASE t._type = "Deposit" -> TRUE
      [] t._type \in {"Withdrawal", "Dispute", "Resolve", "Chargeback"} -> FALSE

\* Mutant: the lock is never consulted.
is_locked_tx_never(self, t) == FALSE

\* Mutant: a locked account refuses every event, the dispute family too.
is_locked_tx_every_type(self, t) == self.locked

is_locked_tx(self, t) ==
    CASE t._type \in {"Deposit", "Withdrawal"} /\ self.locked -> TRUE
      [] OTHER -> FALSE

\* The arms of the match of apply_tx.  Each yields the account and the
\* referenced transaction (an Option) as the call leaves them.
apply_deposit(self, t, referenced_tx) ==
    LET amount == Units(unwrap_or_default(t.amount)) IN
    [account |-> [self EXCEPT !.available = @ + amount, !.total = @ + amount],
     referenced_tx |-> referenced_tx]

\* Mutant: a withdrawal is applied without a look at the funds.
apply_withdrawal_unchecked(self, t, referenced_tx) ==
    LET amount == Units(unwrap_or_default(t.amount)) IN
    [account |-> [self EXCEPT !.available = @ - amount, !.total = @ - amount],
     referenced_tx |-> referenced_tx]

\* Mutant: the funds check compares total, not available.
apply_withdrawal_checks_total(self, t, referenced_tx) ==
    LET amount == Units(unwrap_or_default(t.amount)) IN
    IF self.total >= amount
    THEN [account |-> [self EXCEPT !.available = @ - amount, !.total = @ - amount],
          referenced_tx |-> referenced_tx]
    ELSE [account |-> self, referenced_tx |-> referenced_tx]

apply_withdrawal(self, t, referenced_tx) ==
    LET amount == Units(unwrap_or_default(t.amount)) IN
    IF self.available >= amount
    THEN [account |-> [self EXCEPT !.available = @ - amount, !.total = @ - amount],
          referenced_tx |-> referenced_tx]
    ELSE [account |-> self, referenced_tx |-> referenced_tx]

\* Mutant: a dispute holds the amount without taking it from available.
apply_dispute_keeps_available(self, ref) ==
    LET amount == Units(unwrap_or_default(ref.amount)) IN
    IF ref.state = "Open" /\ amount > 0
    THEN [account |-> [self EXCEPT !.held = @ + amount],
          referenced_tx |-> <<[ref EXCEPT !.state = "ActiveDispute"]>>]
    ELSE [account |-> self, referenced_tx |-> <<ref>>]

\* Mutant: a dispute acts on a deposit of amount zero too.
apply_dispute_of_zero(self, ref) ==
    LET amount == Units(unwrap_or_default(ref.amount)) IN
    IF ref.state = "Open" /\ amount >= 0
    THEN [account |-> [self EXCEPT !.available = @ - amount, !.held = @ + amount],
          referenced_tx |-> <<[ref EXCEPT !.state = "ActiveDispute"]>>]
    ELSE [account |-> self, referenced_tx |-> <<ref>>]

\* Mutant: a dispute acts whatever the state of the deposit.
apply_dispute_ignores_state(self, ref) ==
    LET amount == Units(unwrap_or_default(ref.amount)) IN
    IF amount > 0
    THEN [account |-> [self EXCEPT !.available = @ - amount, !.held = @ + amount],
          referenced_tx |-> <<[ref EXCEPT !.state = "ActiveDispute"]>>]
    ELSE [account |-> self, referenced_tx |-> <<ref>>]

\* Mutant: a dispute is refused when available does not cover the amount.
apply_dispute_needs_available(self, ref) ==
    LET amount == Units(unwrap_or_default(ref.amount)) IN
    IF ref.state = "Open" /\ amount > 0 /\ self.available >= amount
    THEN [account |-> [self EXCEPT !.available = @ - amount, !.held = @ + amount],
          referenced_tx |-> <<[ref EXCEPT !.state = "ActiveDispute"]>>]
    ELSE [account |-> self, referenced_tx |-> <<ref>>]

\* The arms below are entered with a referenced transaction of type Deposit.
apply_dispute(self, ref) ==
    LET amount == Units(unwrap_or_default(ref.amount)) IN
    IF ref.state = "Open" /\ amount > 0
    THEN [account |-> [self EXCEPT !.available = @ - amount, !.held = @ + amount],
          referenced_tx |-> <<[ref EXCEPT !.state = "ActiveDispute"]>>]
    ELSE [account |-> self, referenced_tx |-> <<ref>>]

\* Mutant: a resolve acts whatever the state of the deposit.
apply_resolve_ignores_state(self, ref) ==
    LET amount == Units(unwrap_or_default(ref.amount)) IN
    IF amount > 0
    THEN [account |-> [self EXCEPT !.available = @ + amount, !.held = @ - amount],
          referenced_tx |-> <<[ref EXCEPT !.state = "Open"]>>]
    ELSE [account |-> self, referenced_tx |-> <<ref>>]

\* Mutant: a resolve drops the held amount instead of releasing it.
apply_resolve_drops_held(self, ref) ==
    LET amount == Units(unwrap_or_default(ref.amount)) IN
    IF ref.state = "ActiveDispute" /\ amount > 0
    THEN [account |-> [self EXCEPT !.total = @ - amount, !.held = @ - amount],
          referenced_tx |-> <<[ref EXCEPT !.state = "Open"]>>]
    ELSE [account |-> self, referenced_tx |-> <<ref>>]

apply_resolve(self, ref) ==
    LET amount == Units(unwrap_or_default(ref.amount)) IN
    IF ref.state = "ActiveDispute" /\ amount > 0
    THEN [account |-> [self EXCEPT !.available = @ + amount, !.held = @ - amount],
          referenced_tx |-> <<[ref EXCEPT !.state = "Open"]>>]
    ELSE [account |-> self, referenced_tx |-> <<ref>>]

\* Mutant: a chargeback does not lock the account.
apply_chargeback_without_lock(self, ref) ==
    LET amount == Units(unwrap_or_default(ref.amount)) IN
    IF ref.state = "ActiveDispute" /\ amount > 0
    THEN [account |-> [self EXCEPT !.total = @ - amount, !.held = @ - amount],
          referenced_tx |-> <<[ref EXCEPT !.state = "ChargedBack"]>>]
    ELSE [account |-> self, referenced_tx |-> <<ref>>]

\* Mutant: a chargeback leaves the amount held.
apply_chargeback_keeps_held(self, ref) ==
    LET amount == Units(unwrap_or_default(ref.amount)) IN
    IF ref.state = "ActiveDispute" /\ amount > 0
    THEN [account |-> [self EXCEPT !.total = @ - amount, !.locked = TRUE],
          referenced_tx |-> <<[ref EXCEPT !.state = "ChargedBack"]>>]
    ELSE [account |-> self, referenced_tx |-> <<ref>>]

\* Mutant: a chargeback takes the amount from available as well.
apply_chargeback_takes_available(self, ref) ==
    LET amount == Units(unwrap_or_default(ref.amount)) IN
    IF ref.state = "ActiveDispute" /\ amount > 0
    THEN [account |-> [self EXCEPT !.available = @ - amount, !.total = @ - amount,
                                   !.held = @ - amount, !.locked = TRUE],
          referenced_tx |-> <<[ref EXCEPT !.state = "ChargedBack"]>>]
    ELSE [account |-> self, referenced_tx |-> <<ref>>]

apply_chargeback(self, ref) ==
    LET amount == Units(unwrap_or_default(ref.amount)) IN
    IF ref.state = "ActiveDispute" /\ amount > 0
    THEN [account |-> [self EXCEPT !.total = @ - amount, !.held = @ - amount,
                                   !.locked = TRUE],
          referenced_tx |-> <<[ref EXCEPT !.state = "ChargedBack"]>>]
    ELSE [account |-> self, referenced_tx |-> <<ref>>]

\* Account::apply_tx of main.rs: a match on the event's type and, for the
\* dispute family, on the presence and the type of the referenced transaction.
apply_tx(self, t, referenced_tx) ==
    LET same == [account |-> self, referenced_tx |-> referenced_tx]
        is_deposit == referenced_tx # << >> /\ referenced_tx[1]._type = "Deposit"
    IN
    IF is_locked_tx(self, t) THEN same
    ELSE CASE t._type = "Deposit" -> apply_deposit(self, t, referenced_tx)
           [] t._type = "Withdrawal" -> apply_withdrawal(self, t, referenced_tx)
           [] t._type = "Dispute" ->
                IF is_deposit THEN apply_dispute(self, referenced_tx[1]) ELSE same
           [] t._type = "Resolve" ->
                IF is_deposit THEN apply_resolve(self, referenced_tx[1]) ELSE same
           [] t._type = "Chargeback" ->
                IF is_deposit THEN apply_chargeback(self, referenced_tx[1]) ELSE same

\* ---------------------------------------------------- src/src/account.rs
\* Mutant: the lock is never consulted.
account_rs_is_locked_tx_never(self, t) == FALSE

account_rs_is_locked_tx(self, t) ==
    CASE t._type \in {"Deposit", "Withdrawal"} /\ self.locked -> TRUE
      [] OTHER -> FALSE

\* The arms of the match of apply_tx.  Each yields the account and the
\* referenced transaction (an Option) as the call leaves them.
account_rs_apply_deposit(self, t, referenced_tx) ==
    LET amount == Units(unwrap_or_default(t.amount)) IN
    [account |-> [self EXCEPT !.available = @ + amount, !.total = @ + amount],
     referenced_tx |-> referenced_tx]

account_rs_apply_withdrawal(self, t, referenced_tx) ==
    LET amount == Units(unwrap_or_default(t.amount)) IN
    IF self.available >= amount
    THEN [account |-> [self EXCEPT !.available = @ - amount, !.total = @ - amount],
          referenced_tx |-> referenced_tx]
    ELSE [account |-> self, referenced_tx |-> referenced_tx]

\* The arms below are entered with a referenced transaction of type Deposit.
account_rs_apply_dispute(self, ref) ==
    LET amount == Units(unwrap_or_default(ref.amount)) IN
    IF ref.state = "Open" /\ amount > 0
    THEN [account |-> [self EXCEPT !.available = @ - amount, !.held = @ + amount],
          referenced_tx |-> <<[ref EXCEPT !.state = "ActiveDispute"]>>]
    ELSE [account |-> self, referenced_tx |-> <<ref>>]

account_rs_apply_resolve(self, ref) ==
    LET amount == Units(unwrap_or_default(ref.amount)) IN
    IF ref.state = "ActiveDispute" /\ amount > 0
    THEN [account |-> [self EXCEPT !.available = @ + amount, !.held = @ - amount],
          referenced_tx |-> <<[ref EXCEPT !.state = "Open"]>>]
    ELSE [account |-> self, referenced_tx |-> <<ref>>]

account_rs_apply_chargeback(self, ref) ==
    LET amount == Units(unwrap_or_default(ref.amount)) IN
    IF ref.state = "ActiveDispute" /\ amount > 0
    THEN [account |-> [self EXCEPT !.total = @ - amount, !.held = @ - amount,
                                   !.locked = TRUE],
          referenced_tx |-> <<[ref EXCEPT !.state = "ChargedBack"]>>]
    ELSE [account |-> self, referenced_tx |-> <<ref>>]

\* Mutant: the dispute family does not look at the type of the referenced
\* transaction.
account_rs_apply_tx_any_type(self, t, referenced_tx) ==
    LET same == [account |-> self, referenced_tx |-> referenced_tx]
        ref_type == IF referenced_tx = << >> THEN "None" ELSE "Deposit"
    IN
    IF account_rs_is_locked_tx(self, t) THEN same
    ELSE CASE t._type = "Deposit" -> account_rs_apply_deposit(self, t, referenced_tx)
           [] t._type = "Withdrawal" ->
                account_rs_apply_withdrawal(self, t, referenced_tx)
           [] t._type = "Dispute" /\ ref_type = "Deposit" ->
                account_rs_apply_dispute(self, referenced_tx[1])
           [] t._type = "Resolve" /\ ref_type = "Deposit" ->
                account_rs_apply_resolve(self, referenced_tx[1])
           [] t._type = "Chargeback" /\ ref_type = "Deposit" ->
                account_rs_apply_chargeback(self, referenced_tx[1])
           [] OTHER -> same

\* Account::apply_tx of account.rs: one match on the pair of the event's
\* type and the referenced transaction's type.
account_rs_apply_tx(self, t, referenced_tx) ==
    LET same == [account |-> self, referenced_tx |-> referenced_tx]
        ref_type == IF referenced_tx = << >> THEN "None" ELSE referenced_tx[1]._type
    IN
    IF account_rs_is_locked_tx(self, t) THEN same
    ELSE CASE t._type = "Deposit" -> account_rs_apply_deposit(self, t, referenced_tx)
           [] t._type = "Withdrawal" ->
                account_rs_apply_withdrawal(self, t, referenced_tx)
           [] t._type = "Dispute" /\ ref_type = "Deposit" ->
                account_rs_apply_dispute(self, referenced_tx[1])
           [] t._type = "Resolve" /\ ref_type = "Deposit" ->
                account_rs_apply_resolve(self, referenced_tx[1])
           [] t._type = "Chargeback" /\ ref_type = "Deposit" ->
                account_rs_apply_chargeback(self, referenced_tx[1])
           [] OTHER -> same

\* ------------------------------------------------------------------ state
VARIABLES
    ledger,         \* run: HashMap<u16, Account>, a function on the clients met
    tx_history,     \* run: HashMap<u32, Transaction>, a function on the TxIds stored
    tx,             \* the row handled by the latest step (NoTransaction if none)
    read,           \* number of rows read, or of direct calls made, so far
    output,         \* the rows written to stdout, as a bag
    pc,             \* "loop", "ok" (Ok(())), "err" (Err returned); "test"
    account,        \* direct use of account.rs: the caller's Account
    referenced_tx   \* direct use of account.rs: the caller's Option<Transaction>

vars == <<ledger, tx_history, tx, read, output, pc, account, referenced_tx>>

\* The program is either run on an input (pc = "loop") or its Account is
\* driven by direct calls of apply_tx, as the unit tests do (pc = "test").
Init ==
    /\ ledger = << >>
    /\ tx_history = << >>
    /\ tx = NoTransaction
    /\ read = 0
    /\ output = EmptyBag
    /\ pc \in {"loop", "test"}
    /\ account = AccountDefault
    /\ referenced_tx = << >>

\* HashMap::get_mut as an Option
get_mut(map, key) == IF key \in DOMAIN map THEN <<map[key]>> ELSE << >>

\* HashMap::insert
insert(map, key, value) ==
    [k \in DOMAIN map \cup {key} |-> IF k = key THEN value ELSE map[k]]

\* Mutant: the account is inserted anew whether or not the client is known.
entry_or_insert_always(map, client) == insert(map, client, AccountNew(client))

\* ledger.entry(client).or_insert(Account { client, ..Default::default() })
entry_or_insert(map, client) ==
    IF client \in DOMAIN map THEN map ELSE insert(map, client, AccountNew(client))

\* Mutant: the owner of the referenced transaction is not looked at.
referenced_tx_client_ignored(ref, t) == t.client

\* referenced_tx.as_ref().map_or_else(|| tx.client, |x| x.client)
referenced_tx_client(ref, t) == IF ref = << >> THEN t.client ELSE ref[1].client

\* Mutant: the uniqueness check comes before the check of the amount.
run_record_unique_first(l, h, t) ==
    LET amount == unwrap_or_default(t.amount) IN
    IF requires_unique_tx(t) /\ t.tx \in DOMAIN h
    THEN [ledger |-> l, tx_history |-> h, pc |-> "err"]
    ELSE IF is_sign_negative(amount)
    THEN [ledger |-> l, tx_history |-> h, pc |-> "loop"]
    ELSE LET ledger1 == entry_or_insert(l, t.client)
             ref == get_mut(h, t.tx)
         IN
         IF referenced_tx_client(ref, t) = t.client
         THEN LET r == apply_tx(ledger1[t.client], t, ref)
                  history1 == IF r.referenced_tx = << >> THEN h
                              ELSE insert(h, t.tx, r.referenced_tx[1])
              IN  [ledger |-> insert(ledger1, t.client, r.account),
                   tx_history |-> IF requires_history(t)
                                  THEN insert(history1, t.tx, t) ELSE history1,
                   pc |-> "loop"]
         ELSE [ledger |-> ledger1, tx_history |-> h, pc |-> "loop"]

\* Mutant: the event is applied to the account of the owner of the
\* referenced transaction, whoever issued it.
run_record_charges_owner(l, h, t) ==
    LET amount == unwrap_or_default(t.amount) IN
    IF is_sign_negative(amount)
    THEN [ledger |-> l, tx_history |-> h, pc |-> "loop"]
    ELSE IF requires_unique_tx(t) /\ t.tx \in DOMAIN h
    THEN [ledger |-> l, tx_history |-> h, pc |-> "err"]
    ELSE LET ref == get_mut(h, t.tx)
             owner == referenced_tx_client(ref, t)
             ledger1 == entry_or_insert(entry_or_insert(l, t.client), owner)
             r == apply_tx(ledger1[owner], t, ref)
             history1 == IF r.referenced_tx = << >> THEN h
                         ELSE insert(h, t.tx, r.referenced_tx[1])
         IN  [ledger |-> insert(ledger1, owner, r.account),
              tx_history |-> IF requires_history(t)
                             THEN insert(history1, t.tx, t) ELSE history1,
              pc |-> "loop"]

\* The body of `for record in reader.deserialize()` for a decoded row t: the
\* ledger, the history and the control state it leaves.
run_record(l, h, t) ==
    LET amount == unwrap_or_default(t.amount) IN
    IF is_sign_negative(amount)
    THEN \* continue
         [ledger |-> l, tx_history |-> h, pc |-> "loop"]
    ELSE IF requires_unique_tx(t) /\ t.tx \in DOMAIN h
    THEN \* return Err(..)
         [ledger |-> l, tx_history |-> h, pc |-> "err"]
    ELSE LET ledger1 == entry_or_insert(l, t.client)
             ref == get_mut(h, t.tx)
         IN
         IF referenced_tx_client(ref, t) = t.client
         THEN LET r == apply_tx(ledger1[t.client], t, ref)
                  history1 == IF r.referenced_tx = << >> THEN h
                              ELSE insert(h, t.tx, r.referenced_tx[1])
              IN  [ledger |-> insert(ledger1, t.client, r.account),
                   tx_history |-> IF requires_history(t)
                                  THEN insert(history1, t.tx, t) ELSE history1,
                   pc |-> "loop"]
         ELSE [ledger |-> ledger1, tx_history |-> h, pc |-> "loop"]

\* The loop of `run` over a sequence of decoded rows, from ledger l and
\* history h: it stops at the first row that returns Err.
RECURSIVE run_loop(_, _, _)
run_loop(l, h, rows) ==
    IF rows = << >> THEN [ledger |-> l, tx_history |-> h, pc |-> "loop"]
    ELSE LET r == run_record(l, h, Head(rows)) IN
         IF r.pc = "err" THEN r ELSE run_loop(r.ledger, r.tx_history, Tail(rows))

\* Mutant: the row is handled but the reader does not advance past it.
RunRecord_not_consumed(t) ==
    /\ pc = "loop"
    /\ read < MaxEvents
    /\ read' = read
    /\ tx' = t
    /\ LET r == run_record(ledger, tx_history, t) IN
       /\ ledger' = r.ledger
       /\ tx_history' = r.tx_history
       /\ pc' = r.pc
    /\ UNCHANGED <<output, account, referenced_tx>>

\* One iteration of the loop of `run` on a row that decodes.
RunRecord(t) ==
    /\ pc = "loop"
    /\ \/ read < MaxEvents
       \/ /\ read < MaxDeepEvents /\ DOMAIN ledger \subseteq {1}
          /\ t.client = 1 \/ t._type \in {"Dispute", "Resolve", "Chargeback"}
    /\ read' = read + 1
    /\ tx' = t
    /\ LET r == run_record(ledger, tx_history, t) IN
       /\ ledger' = r.ledger
       /\ tx_history' = r.tx_history
       /\ pc' = r.pc
    /\ UNCHANGED <<output, account, referenced_tx>>

\* `let tx: Transaction = record?;` on a row that fails to decode.
RunDecodeError ==
    /\ pc = "loop"
    /\ read < MaxEvents
    /\ read' = read + 1
    /\ tx' = NoTransaction
    /\ pc' = "err"
    /\ UNCHANGED <<ledger, tx_history, output, account, referenced_tx>>

\* The rows `for account in ledger.values() { wtr.serialize(account)?; }`
\* writes: one per entry of the map, in the map's arbitrary order.
RECURSIVE serialize_values(_, _)
serialize_values(map, keys) ==
    IF keys = {} THEN EmptyBag
    ELSE LET k == CHOOSE k \in keys : TRUE
         IN  SetToBag({map[k]}) (+) serialize_values(map, keys \ {k})

\* Mutant: the snapshot is written after a fatal error too.
RunWrite_after_error ==
    /\ pc \in {"loop", "err"}
    /\ output' = serialize_values(ledger, DOMAIN ledger)
    /\ pc' = "ok"
    /\ UNCHANGED <<ledger, tx_history, tx, read, account, referenced_tx>>

\* The input ends (after any row): the loop is left, every account is
\* serialized, the writer is flushed and run returns Ok(()).
RunWrite ==
    /\ pc = "loop"
    /\ output' = serialize_values(ledger, DOMAIN ledger)
    /\ pc' = "ok"
    /\ UNCHANGED <<ledger, tx_history, tx, read, account, referenced_tx>>

\* ---------------------------------------- direct calls of Account::apply_tx
\* The transactions a caller holds to be referenced: a Deposit or a
\* Withdrawal in any state, as the unit tests build them.
TestTransaction ==
    [_type : {"Deposit", "Withdrawal"}, client : {1}, tx : {1},
     amount : {<<d>> : d \in {d \in Decimal : valid_tx_data([amount |-> <<d>>])}},
     state : TransactionState]

\* The events a caller applies: apply_tx reads neither their client nor
\* their tx, so one value of each is enough.
TestEvent == {t \in Transaction : t.client = 1 /\ t.tx = 1}

\* `let mut tx1 = Transaction { .. };`, or no transaction to reference.
TestReference(r) ==
    /\ pc = "test"
    /\ read < MaxCalls
    /\ read' = read + 1
    /\ referenced_tx' = r
    /\ tx' = NoTransaction
    /\ UNCHANGED <<ledger, tx_history, output, pc, account>>

\* `account.locked = true;`
TestLock ==
    /\ pc = "test"
    /\ read < MaxCalls
    /\ ~account.locked
    /\ read' = read + 1
    /\ account' = [account EXCEPT !.locked = TRUE]
    /\ tx' = NoTransaction
    /\ UNCHANGED <<ledger, tx_history, output, pc, referenced_tx>>

\* `account.apply_tx(&t, referenced_tx);`
TestApply(t) ==
    /\ pc = "test"
    /\ read < MaxCalls
    /\ read' = read + 1
    /\ tx' = t
    /\ LET r == account_rs_apply_tx(account, t, referenced_tx) IN
       /\ account' = r.account
       /\ referenced_tx' = r.referenced_tx
    /\ UNCHANGED <<ledger, tx_history, output, pc>>

Next ==
    \/ \E t \in Transaction : RunRecord(t)
    \/ RunDecodeError
    \/ RunWrite
    \/ \E r \in {<< >>} \cup {<<t>> : t \in TestTransaction} : TestReference(r)
    \/ TestLock
    \/ \E t \in TestEvent : TestApply(t)

Spec == Init /\ [][Next]_vars

\* `run` is one sequential loop that no step can suspend: while it has not
\* returned, it reads the next row or finds the end of the input.
LiveSpec == Init /\ [][Next]_vars /\ WF_vars(Next)

TypeOK ==
    /\ DOMAIN ledger \subseteq ClientIds
    /\ DOMAIN tx_history \subseteq TxIds
    /\ pc \in {"loop", "ok", "err", "test"}
    /\ read \in 0..MaxDeepEvents

\* ------------------------------------------------------------- properties
DisputeFamily == {"Dispute", "Resolve", "Chargeback"}

\* The step is an iteration of the loop of `run` on the decoded row tx'.
RunStep == pc = "loop" /\ read' = read + 1 /\ tx' # NoTransaction

\* The step is a direct call account.apply_tx(&tx', referenced_tx).
ApplyStep == pc = "test" /\ read' = read + 1 /\ tx' # NoTransaction

\* The balances and the lock of an account record.
Balances(a) == <<a.available, a.held, a.total, a.locked>>

\* C1: after every event applied by apply_tx, effective or not, and for every
\* account of the ledger after any sequence of rows processed by `run`,
\* total = available + held.
C1_TotalIsAvailablePlusHeld ==
    /\ \A c \in DOMAIN ledger : ledger[c].total = ledger[c].available + ledger[c].held
    /\ account.total = account.available + account.held

\* C1 witness: `run` has just applied a Dispute that moved funds to held, so
\* that available and total differ.
C1_Witness ==
    /\ pc = "loop"
    /\ tx._type = "Dispute"
    /\ tx.client \in DOMAIN ledger
    /\ ledger[tx.client].held > 0
    /\ ledger[tx.client].total # ledger[tx.client].available
\* C2: locked is monotonic: an account that is locked is locked in every later
\* state, whatever event follows (later Dispute and Resolve events included).
C2_LockedIsMonotonic ==
    [][/\ \A c \in DOMAIN ledger :
             ledger[c].locked => c \in DOMAIN ledger' /\ ledger'[c].locked
       /\ account.locked => account'.locked]_vars

\* C2 witness: `run` has processed a Dispute or Resolve that refers to a
\* deposit of a client whose account a chargeback had locked before.
C2_Witness ==
    /\ pc = "loop"
    /\ tx._type \in {"Dispute", "Resolve"}
    /\ tx.client \in DOMAIN ledger
    /\ ledger[tx.client].locked
    /\ tx.tx \in DOMAIN tx_history
    /\ tx_history[tx.tx].client = tx.client

\* C3: a validated Deposit whose TxId is that of a Deposit stored in history
\* (of the same or of another client) aborts the run: it changes neither the
\* ledger nor the history, nothing is applied afterwards and no snapshot row
\* is written.
C3_DuplicateDepositAborts ==
    [][/\ (RunStep /\ tx'._type = "Deposit" /\ valid_tx_data(tx')
              /\ tx'.tx \in DOMAIN tx_history /\ tx_history[tx'.tx]._type = "Deposit")
          => (pc' = "err" /\ ledger' = ledger /\ tx_history' = tx_history
                /\ output' = EmptyBag)
       /\ pc = "err" => UNCHANGED <<ledger, tx_history, output, pc>>]_vars

\* C3 witness: the run has aborted on a validated Deposit that reuses the
\* TxId of a deposit stored for another client.
C3_Witness ==
    /\ pc = "err"
    /\ tx._type = "Deposit"
    /\ valid_tx_data(tx)
    /\ tx.tx \in DOMAIN tx_history
    /\ tx_history[tx.tx].client # tx.client
    /\ output = EmptyBag

\* C4: the uniqueness check remembers the TxId of every Withdrawal too: a
\* validated Deposit or Withdrawal whose TxId is that of an earlier
\* Withdrawal aborts the run.  Stated for the nearest earlier Withdrawal, the
\* validated row handled just before.
C4_WithdrawalTxIdIsRemembered ==
    [][(/\ RunStep
        /\ tx._type = "Withdrawal" /\ valid_tx_data(tx)
        /\ tx'._type \in {"Deposit", "Withdrawal"} /\ valid_tx_data(tx')
        /\ tx'.tx = tx.tx)
       => pc' = "err"]_vars

\* C5: output is all or nothing: rows are written only when the run ends
\* with Ok, after which no row is processed; a run that has aborted never
\* writes a row, whatever accounts it had updated before.
C5_OutputAllOrNothing ==
    [][/\ output' # EmptyBag => pc' = "ok"
       /\ pc = "err" => pc' = "err" /\ output' = EmptyBag
       /\ pc = "ok" => UNCHANGED <<ledger, tx_history, read, output, pc>>]_vars

\* C5 witness: the run has aborted on a duplicate TxId after it had credited
\* an account, and nothing has been written.
C5_Witness ==
    /\ pc = "err"
    /\ tx._type \in {"Deposit", "Withdrawal"}
    /\ tx.tx \in DOMAIN tx_history
    /\ \E c \in DOMAIN ledger : ledger[c].total > 0
    /\ output = EmptyBag
\* The account of client c as `run` finds or creates it in ledger l.
AccountOf(l, c) == IF c \in DOMAIN l THEN l[c] ELSE AccountNew(c)

\* C6: a Dispute, Resolve or Chargeback of client A whose TxId is that of a
\* history deposit of another client B is skipped: the balances and the lock
\* of A's and of B's account and the state of the deposit are unchanged.
C6_CrossClientReferenceSkipped ==
    [][(/\ RunStep
        /\ tx'._type \in DisputeFamily
        /\ tx'.tx \in DOMAIN tx_history
        /\ tx_history[tx'.tx]._type = "Deposit"
        /\ tx_history[tx'.tx].client # tx'.client)
       => LET A == tx'.client
              B == tx_history[tx'.tx].client
          IN  /\ Balances(ledger'[A]) = Balances(AccountOf(ledger, A))
              /\ B \in DOMAIN ledger /\ ledger'[B] = ledger[B]
              /\ tx_history' = tx_history
              /\ pc' = "loop"]_vars

\* C6 witness: client A's Resolve of a deposit that client B holds under
\* dispute has been processed; the deposit is still disputed and B's funds
\* are still held.
C6_Witness ==
    /\ pc = "loop"
    /\ tx._type = "Resolve"
    /\ tx.tx \in DOMAIN tx_history
    /\ tx_history[tx.tx].client # tx.client
    /\ tx_history[tx.tx].state = "ActiveDispute"
    /\ ledger[tx_history[tx.tx].client].held > 0
    /\ tx.client \in DOMAIN ledger

\* The number of fractional digits of the amount of row t.
FractionalDigits(t) == unwrap_or_default(t.amount).scale

\* C7: an amount of at most 4 fractional digits that is not negative passes
\* validation; an amount of 5 or more fractional digits fails validation and
\* the row that carries it is skipped by `run`: no account and no history
\* entry changes.
C7_OverPreciseAmountSkipped ==
    [][RunStep =>
        /\ (FractionalDigits(tx') <= 4 /\ ~is_sign_negative(unwrap_or_default(tx'.amount)))
              => valid_tx_data(tx')
        /\ FractionalDigits(tx') >= 5
              => (~valid_tx_data(tx') /\ ledger' = ledger /\ tx_history' = tx_history)]_vars

\* C8: on a locked account a Deposit or a Withdrawal of any amount leaves
\* available, held, total and locked unchanged, whether or not the funds
\* would have sufficed.
C8_LockedAccountIgnoresValueEvents ==
    [][/\ (RunStep /\ tx'._type \in {"Deposit", "Withdrawal"}
              /\ tx'.client \in DOMAIN ledger /\ ledger[tx'.client].locked)
          => ledger'[tx'.client] = ledger[tx'.client]
       /\ (ApplyStep /\ tx'._type \in {"Deposit", "Withdrawal"} /\ account.locked)
          => account' = account]_vars

\* C8 witness: as in tests::deposit_and_withdraw_flow, a Withdrawal has been
\* applied to a locked account whose available funds cover the amount.
C8_Witness ==
    /\ pc = "test"
    /\ tx._type = "Withdrawal"
    /\ account.locked
    /\ Units(unwrap_or_default(tx.amount)) > 0
    /\ account.available >= Units(unwrap_or_default(tx.amount))

\* The disputeState a deposit must have for an event of the dispute family
\* to act on it, the state the event leaves, and the account it leaves.
RequiredState(kind) ==
    CASE kind = "Dispute" -> "Open"
      [] kind = "Resolve" -> "ActiveDispute"
      [] kind = "Chargeback" -> "ActiveDispute"

ResultState(kind) ==
    CASE kind = "Dispute" -> "ActiveDispute"
      [] kind = "Resolve" -> "Open"
      [] kind = "Chargeback" -> "ChargedBack"

ResultAccount(kind, a, amount) ==
    CASE kind = "Dispute" ->
            [a EXCEPT !.available = @ - amount, !.held = @ + amount]
      [] kind = "Resolve" ->
            [a EXCEPT !.available = @ + amount, !.held = @ - amount]
      [] kind = "Chargeback" ->
            [a EXCEPT !.total = @ - amount, !.held = @ - amount, !.locked = TRUE]

\* The referenced transaction ref meets the preconditions of event t.
MeetsPreconditions(t, ref) ==
    /\ ref.client = t.client
    /\ ref._type = "Deposit"
    /\ ref.state = RequiredState(t._type)
    /\ Units(unwrap_or_default(ref.amount)) > 0

\* C9: the lock never blocks the dispute family: on a locked account a
\* Dispute, Resolve or Chargeback whose referenced deposit meets the
\* preconditions changes the balances and the disputeState exactly as on an
\* unlocked account.
C9_LockDoesNotBlockDisputeFamily ==
    [][/\ (/\ RunStep /\ tx'._type \in DisputeFamily
           /\ tx'.client \in DOMAIN ledger /\ ledger[tx'.client].locked
           /\ tx'.tx \in DOMAIN tx_history
           /\ MeetsPreconditions(tx', tx_history[tx'.tx]))
          => LET ref == tx_history[tx'.tx] IN
             /\ ledger'[tx'.client] =
                   ResultAccount(tx'._type, ledger[tx'.client],
                                 Units(unwrap_or_default(ref.amount)))
             /\ tx_history'[tx'.tx] = [ref EXCEPT !.state = ResultState(tx'._type)]
       /\ (/\ ApplyStep /\ tx'._type \in DisputeFamily
           /\ account.locked
           /\ referenced_tx # << >>
           /\ MeetsPreconditions(tx', referenced_tx[1]))
          => LET ref == referenced_tx[1] IN
             /\ account' = ResultAccount(tx'._type, account,
                                         Units(unwrap_or_default(ref.amount)))
             /\ referenced_tx' = <<[ref EXCEPT !.state = ResultState(tx'._type)]>>]_vars

\* C9 witness: the fifth row of a run is a Dispute that has moved a deposit
\* to ActiveDispute on an account that the chargeback of another deposit had
\* locked.
C9_Witness ==
    /\ pc = "loop"
    /\ read = 5
    /\ tx._type = "Dispute"
    /\ tx.client \in DOMAIN ledger
    /\ ledger[tx.client].locked
    /\ tx.tx \in DOMAIN tx_history
    /\ tx_history[tx.tx].client = tx.client
    /\ tx_history[tx.tx].state = "ActiveDispute"
    /\ ledger[tx.client].held > 0

\* C10: on an unlocked account a Withdrawal of amount a takes a from available
\* and from total and leaves held when available >= a (available = a leaves
\* available at zero), and changes nothing when available < a; the
\* comparison reads available, never total or held.
C10_Withdrawal ==
    [][/\ (/\ RunStep /\ tx'._type = "Withdrawal"
           /\ ~is_sign_negative(unwrap_or_default(tx'.amount))
           /\ tx'.tx \notin DOMAIN tx_history
           /\ ~AccountOf(ledger, tx'.client).locked)
          => LET a == Units(unwrap_or_default(tx'.amount))
                 before == AccountOf(ledger, tx'.client)
             IN  ledger'[tx'.client] =
                    IF before.available >= a
                    THEN [before EXCEPT !.available = @ - a, !.total = @ - a]
                    ELSE before
       /\ (ApplyStep /\ tx'._type = "Withdrawal" /\ ~account.locked)
          => LET a == Units(unwrap_or_default(tx'.amount)) IN
             account' = IF account.available >= a
                        THEN [account EXCEPT !.available = @ - a, !.total = @ - a]
                        ELSE account]_vars

\* C10 witness: `run` has applied a Withdrawal of exactly the available funds,
\* the amount of the one deposit of the client, and available is zero.
C10_Witness ==
    /\ pc = "loop"
    /\ tx._type = "Withdrawal"
    /\ Units(unwrap_or_default(tx.amount)) > 0
    /\ tx.client \in DOMAIN ledger
    /\ ~ledger[tx.client].locked
    /\ ledger[tx.client].available = 0
    /\ ledger[tx.client].held = 0
    /\ \E k \in DOMAIN tx_history :
          /\ tx_history[k].client = tx.client
          /\ tx_history[k].state = "Open"
          /\ tx_history[k].amount = tx.amount
    /\ \A k \in DOMAIN tx_history :
          tx_history[k].client = tx.client => tx_history[k].amount = tx.amount

\* C11: a Dispute that references a deposit of the same client in state Open
\* with amount a > 0 takes a from available, adds a to held, leaves total and
\* locked, and sets the deposit to ActiveDispute; it does so when available
\* is less than a too, and available then becomes negative.
C11_DisputeHoldsDepositAmount ==
    [][/\ (/\ RunStep /\ tx'._type = "Dispute"
           /\ tx'.tx \in DOMAIN tx_history
           /\ MeetsPreconditions(tx', tx_history[tx'.tx]))
          => LET ref == tx_history[tx'.tx]
                 a == Units(unwrap_or_default(ref.amount))
                 before == ledger[tx'.client]
                 after == ledger'[tx'.client]
             IN  /\ after.available = before.available - a
                 /\ after.held = before.held + a
                 /\ after.total = before.total
                 /\ after.locked = before.locked
                 /\ before.available < a => after.available < 0
                 /\ tx_history'[tx'.tx].state = "ActiveDispute"
       /\ (/\ ApplyStep /\ tx'._type = "Dispute"
           /\ referenced_tx # << >>
           /\ MeetsPreconditions(tx', referenced_tx[1]))
          => LET a == Units(unwrap_or_default(referenced_tx[1].amount)) IN
             /\ account'.available = account.available - a
             /\ account'.held = account.held + a
             /\ account'.total = account.total
             /\ account'.locked = account.locked
             /\ account.available < a => account'.available < 0
             /\ referenced_tx'[1].state = "ActiveDispute"]_vars

\* C11 witness: `run` has applied a Dispute of a deposit whose funds had been
\* withdrawn before: available is negative by the amount now held.
C11_Witness ==
    /\ pc = "loop"
    /\ tx._type = "Dispute"
    /\ tx.tx \in DOMAIN tx_history
    /\ tx_history[tx.tx].client = tx.client
    /\ tx_history[tx.tx].state = "ActiveDispute"
    /\ ledger[tx.client].available < 0
    /\ ledger[tx.client].held = Units(unwrap_or_default(tx_history[tx.tx].amount))
    /\ ledger[tx.client].total = ledger[tx.client].available + ledger[tx.client].held
    /\ ~ledger[tx.client].locked

\* A row of the input: `amount` is a sequence, empty for a row without one.
Row(type, client, id, amount) ==
    [_type |-> type, client |-> client, tx |-> id, amount |-> amount,
     state |-> TransactionStateDefault]

\* The amount n.0000, a whole number at the allowed precision.
Whole(n) == <<[coeff |-> n * Pow10(DECIMAL_PRECISION), scale |-> DECIMAL_PRECISION]>>

\* The balance n, in units of 10^-FracDigits.
WholeUnits(n) == n * Pow10(FracDigits)

\* deposit(1,1,10), withdrawal(1,2,5), dispute(1,1), chargeback(1,1)
ChargebackScenario ==
    <<Row("Deposit", 1, 1, Whole(10)), Row("Withdrawal", 1, 2, Whole(5)),
      Row("Dispute", 1, 1, << >>), Row("Chargeback", 1, 1, << >>)>>

\* C12: a Chargeback that references a deposit of the same client in state
\* ActiveDispute with amount a > 0 takes a from total and from held, leaves
\* available, sets locked and sets the deposit to ChargedBack; so the rows
\* deposit 10, withdrawal 5, dispute, chargeback end with available = -5,
\* held = 0, total = -5 and locked = true.
C12_ChargebackRemovesHeldAndLocks ==
    [][/\ (/\ RunStep /\ tx'._type = "Chargeback"
           /\ tx'.tx \in DOMAIN tx_history
           /\ MeetsPreconditions(tx', tx_history[tx'.tx]))
          => LET ref == tx_history[tx'.tx]
                 a == Units(unwrap_or_default(ref.amount))
                 before == ledger[tx'.client]
                 after == ledger'[tx'.client]
             IN  /\ after.total = before.total - a
                 /\ after.held = before.held - a
                 /\ after.available = before.available
                 /\ after.locked
                 /\ tx_history'[tx'.tx].state = "ChargedBack"
       /\ (/\ ApplyStep /\ tx'._type = "Chargeback"
           /\ referenced_tx # << >>
           /\ MeetsPreconditions(tx', referenced_tx[1]))
          => LET a == Units(unwrap_or_default(referenced_tx[1].amount)) IN
             /\ account'.total = account.total - a
             /\ account'.held = account.held - a
             /\ account'.available = account.available
             /\ account'.locked
             /\ referenced_tx'[1].state = "ChargedBack"
       /\ (pc = "loop" /\ read = 0) =>
          LET end == run_loop(ledger, tx_history, ChargebackScenario) IN
          /\ end.pc = "loop"
          /\ end.ledger = (1 :> [client |-> 1, available |-> 0 - WholeUnits(5),
                                 held |-> 0, total |-> 0 - WholeUnits(5),
                                 locked |-> TRUE])
          /\ end.tx_history[1].state = "ChargedBack"]_vars

\* C12 witness: `run` has applied the Chargeback of a deposit of which a part
\* had been withdrawn before the dispute: nothing is held, the account is
\* locked, and available and total are negative by the part withdrawn.
C12_Witness ==
    /\ pc = "loop"
    /\ tx._type = "Chargeback"
    /\ tx.tx \in DOMAIN tx_history
    /\ tx_history[tx.tx].client = tx.client
    /\ tx_history[tx.tx].state = "ChargedBack"
    /\ ledger[tx.client].locked
    /\ ledger[tx.client].held = 0
    /\ ledger[tx.client].available < 0
    /\ ledger[tx.client].available > 0 - Units(unwrap_or_default(tx_history[tx.tx].amount))
    /\ ledger[tx.client].total = ledger[tx.client].available

\* The history deposits of client c in history h on which a Dispute acts.
DisputableDeposits(h, c) ==
    {k \in DOMAIN h : MeetsPreconditions(Row("Dispute", c, k, << >>), h[k])}

\* C13: round trip: from every reachable state, a Dispute that acts on a
\* deposit followed at once by a Resolve of the same deposit leaves the
\* account's available, held, total and locked exactly as they were before
\* the Dispute, and the deposit Open again.
C13_DisputeThenResolveRestores ==
    /\ pc = "loop" =>
          \A c \in DOMAIN ledger : \A k \in DisputableDeposits(tx_history, c) :
             LET disputed == run_loop(ledger, tx_history, <<Row("Dispute", c, k, << >>)>>)
                 resolved == run_loop(disputed.ledger, disputed.tx_history,
                                      <<Row("Resolve", c, k, << >>)>>)
             IN  /\ disputed.tx_history[k].state = "ActiveDispute"
                 /\ disputed.ledger[c] # ledger[c]
                 /\ Balances(resolved.ledger[c]) = Balances(ledger[c])
                 /\ resolved.tx_history[k].state = "Open"
                 /\ resolved.ledger = ledger
                 /\ resolved.tx_history = tx_history
    /\ (/\ pc = "test" /\ referenced_tx # << >>
        /\ MeetsPreconditions(Row("Dispute", 1, 1, << >>), referenced_tx[1])) =>
          LET disputed == account_rs_apply_tx(account, Row("Dispute", 1, 1, << >>),
                                              referenced_tx)
              resolved == account_rs_apply_tx(disputed.account, Row("Resolve", 1, 1, << >>),
                                              disputed.referenced_tx)
          IN  /\ disputed.referenced_tx[1].state = "ActiveDispute"
              /\ disputed.account # account
              /\ Balances(resolved.account) = Balances(account)
              /\ resolved.referenced_tx[1].state = "Open"
              /\ resolved.referenced_tx = referenced_tx

\* C13 witness: a state of `run` with two more rows to read in which a client
\* has withdrawn a part of an Open deposit, so that the Dispute of the round
\* trip takes available below zero and the Resolve brings it back.
C13_Witness ==
    /\ pc = "loop"
    /\ read + 2 <= MaxDeepEvents
    /\ \E c \in DOMAIN ledger : \E k \in DisputableDeposits(tx_history, c) :
          /\ ledger[c].available > 0
          /\ ledger[c].available < Units(unwrap_or_default(tx_history[k].amount))
          /\ ledger[c].held = 0
          /\ ~ledger[c].locked

\* Event t has acted on the referenced transaction ref: ref is a deposit of
\* positive amount of t's client in the state that t's kind leaves.
HasActedOn(t, ref) ==
    /\ ref.client = t.client
    /\ ref._type = "Deposit"
    /\ ref.state = ResultState(t._type)
    /\ Units(unwrap_or_default(ref.amount)) > 0

\* C14: idempotence: the same Dispute, Resolve or Chargeback applied a second
\* time, right after it has acted on a deposit, changes neither available,
\* held, total or locked of the account nor the state of the deposit.
C14_DisputeFamilyIdempotent ==
    [][/\ (/\ RunStep /\ tx' = tx /\ tx._type \in DisputeFamily
           /\ tx.tx \in DOMAIN tx_history
           /\ HasActedOn(tx, tx_history[tx.tx]))
          => /\ Balances(ledger'[tx.client]) = Balances(ledger[tx.client])
             /\ tx_history'[tx.tx].state = tx_history[tx.tx].state
             /\ ledger' = ledger
             /\ tx_history' = tx_history
       /\ (/\ ApplyStep /\ tx' = tx /\ tx._type \in DisputeFamily
           /\ referenced_tx # << >>
           /\ HasActedOn(tx, referenced_tx[1]))
          => /\ Balances(account') = Balances(account)
             /\ referenced_tx' = referenced_tx]_vars

\* C14 witness: the state that the rows deposit, dispute, resolve, resolve
\* reach: the fourth row is a Resolve of the only deposit, which is Open, and
\* the deposit's amount is available once, nothing is held.
C14_Witness ==
    /\ pc = "loop"
    /\ read = 4
    /\ tx._type = "Resolve"
    /\ tx.tx \in DOMAIN tx_history
    /\ HasActedOn(tx, tx_history[tx.tx])
    /\ DOMAIN tx_history = {tx.tx}
    /\ ledger[tx.client].held = 0
    /\ ledger[tx.client].available = Units(unwrap_or_default(tx_history[tx.tx].amount))

\* The changes of disputeState, as <<state before, state after, event kind>>.
StateTransitions ==
    {<<"Open", "ActiveDispute", "Dispute">>,
     <<"ActiveDispute", "Open", "Resolve">>,
     <<"ActiveDispute", "ChargedBack", "Chargeback">>}

\* C15: every deposit enters history in state Open, and every change of the
\* state of a deposit is Open to ActiveDispute by a Dispute, ActiveDispute to
\* Open by a Resolve or ActiveDispute to ChargedBack by a Chargeback, each by
\* an event that references the deposit; ChargedBack is terminal: a later
\* Dispute, Resolve or Chargeback of that deposit changes neither its state
\* nor any balance.
C15_DisputeStateMachine ==
    [][/\ \A k \in DOMAIN tx_history' \ DOMAIN tx_history :
             tx_history'[k]._type = "Deposit" /\ tx_history'[k].state = "Open"
       /\ \A k \in DOMAIN tx_history :
             /\ k \in DOMAIN tx_history'
             /\ tx_history'[k].state # tx_history[k].state
                   => /\ RunStep /\ tx'.tx = k
                      /\ <<tx_history[k].state, tx_history'[k].state, tx'._type>>
                            \in StateTransitions
       /\ (RunStep /\ tx'._type \in DisputeFamily /\ tx'.tx \in DOMAIN tx_history
              /\ tx_history[tx'.tx].state = "ChargedBack")
          => /\ tx_history' = tx_history
             /\ \A c \in ClientIds :
                   Balances(AccountOf(ledger', c)) = Balances(AccountOf(ledger, c))
       /\ (ApplyStep /\ referenced_tx # << >>)
          => /\ referenced_tx' # << >>
             /\ referenced_tx'[1].state # referenced_tx[1].state
                   => <<referenced_tx[1].state, referenced_tx'[1].state, tx'._type>>
                         \in StateTransitions
             /\ (tx'._type \in DisputeFamily /\ referenced_tx[1].state = "ChargedBack")
                   => account' = account /\ referenced_tx' = referenced_tx]_vars

\* C15 witness: `run` has processed a Dispute of a deposit of the same client
\* that is ChargedBack: the deposit is still ChargedBack and nothing is held.
C15_Witness ==
    /\ pc = "loop"
    /\ tx._type = "Dispute"
    /\ tx.tx \in DOMAIN tx_history
    /\ tx_history[tx.tx].client = tx.client
    /\ tx_history[tx.tx].state = "ChargedBack"
    /\ Units(unwrap_or_default(tx_history[tx.tx].amount)) > 0
    /\ ledger[tx.client].held = 0
    /\ ledger[tx.client].locked

\* C16: a Dispute, Resolve or Chargeback passed to apply_tx with no referenced
\* transaction, or with a referenced transaction that is not a Deposit (a
\* Withdrawal in state ActiveDispute, say), is a complete no-op: available,
\* held, total, locked and the referenced transaction are all unchanged.
C16_NoDepositReferencedIsNoOp ==
    [][/\ (/\ ApplyStep /\ tx'._type \in DisputeFamily
           /\ referenced_tx = << >> \/ referenced_tx[1]._type # "Deposit")
          => /\ account' = account
             /\ referenced_tx' = referenced_tx
             /\ apply_tx(account, tx', referenced_tx)
                   = [account |-> account, referenced_tx |-> referenced_tx]
       /\ (RunStep /\ tx'._type \in DisputeFamily /\ tx'.tx \notin DOMAIN tx_history)
          => /\ Balances(ledger'[tx'.client]) = Balances(AccountOf(ledger, tx'.client))
             /\ \A c \in DOMAIN ledger : ledger'[c] = ledger[c]
             /\ tx_history' = tx_history]_vars

\* C16 witness: as in tests::resolve_tx, a Resolve has been applied to an
\* account with funds while the referenced transaction is a Withdrawal of
\* positive amount in state ActiveDispute; nothing is held and the
\* Withdrawal is still in ActiveDispute.
C16_Witness ==
    /\ pc = "test"
    /\ tx._type = "Resolve"
    /\ referenced_tx # << >>
    /\ referenced_tx[1]._type = "Withdrawal"
    /\ referenced_tx[1].state = "ActiveDispute"
    /\ Units(unwrap_or_default(referenced_tx[1].amount)) > 0
    /\ account.available > 0
    /\ account.held = 0
    /\ account.total = account.available

\* Transaction r carries an amount and the amount is zero.
IsZeroAmount(r) == r.amount # << >> /\ Units(r.amount[1]) = 0

\* C17: a Deposit of amount zero passes validation, leaves every balance as
\* it was and is stored in history; a later Dispute, Resolve or Chargeback
\* that references it is a no-op, so it stays Open for ever, adds nothing to
\* held and locks no account.
C17_ZeroDepositNeverDisputed ==
    [][/\ (RunStep /\ tx'._type = "Deposit" /\ IsZeroAmount(tx')
              /\ tx'.tx \notin DOMAIN tx_history)
          => /\ valid_tx_data(tx')
             /\ pc' = "loop"
             /\ Balances(ledger'[tx'.client]) = Balances(AccountOf(ledger, tx'.client))
             /\ tx_history' = insert(tx_history, tx'.tx, tx')
             /\ tx_history'[tx'.tx].state = "Open"
       /\ \A k \in DOMAIN tx_history :
             (tx_history[k]._type = "Deposit" /\ IsZeroAmount(tx_history[k]))
             => /\ tx_history[k].state = "Open"
                /\ k \in DOMAIN tx_history' /\ tx_history'[k] = tx_history[k]
                /\ (RunStep /\ tx'._type \in DisputeFamily /\ tx'.tx = k)
                      => \A c \in ClientIds :
                            Balances(AccountOf(ledger', c)) = Balances(AccountOf(ledger, c))
       /\ (ApplyStep /\ tx'._type = "Deposit" /\ IsZeroAmount(tx'))
          => valid_tx_data(tx') /\ Balances(account') = Balances(account)
       /\ (/\ ApplyStep /\ tx'._type \in DisputeFamily /\ referenced_tx # << >>
           /\ referenced_tx[1]._type = "Deposit" /\ IsZeroAmount(referenced_tx[1]))
          => account' = account /\ referenced_tx' = referenced_tx]_vars

\* C17 witness: `run` has processed a Chargeback of a deposit of amount zero
\* of the same client, stored in history: the deposit is Open, nothing is
\* held and the account is not locked.
C17_Witness ==
    /\ pc = "loop"
    /\ tx._type = "Chargeback"
    /\ tx.tx \in DOMAIN tx_history
    /\ tx_history[tx.tx]._type = "Deposit"
    /\ tx_history[tx.tx].client = tx.client
    /\ IsZeroAmount(tx_history[tx.tx])
    /\ tx_history[tx.tx].state = "Open"
    /\ ledger[tx.client].held = 0
    /\ ~ledger[tx.client].locked

\* What is stored of a history entry besides its disputeState.
StoredFields(r) == <<r._type, r.client, r.tx, r.amount>>

\* C18: a validated Deposit whose TxId passes the uniqueness check is applied
\* to the account and then inserted in history under its TxId in state Open;
\* a Withdrawal, Dispute, Resolve or Chargeback adds no entry; no entry is
\* ever removed, and the kind, client and amount of an entry never change
\* (only its disputeState does).
C18_HistoryContents ==
    [][/\ (RunStep /\ tx'._type = "Deposit" /\ valid_tx_data(tx')
              /\ tx'.tx \notin DOMAIN tx_history)
          => LET before == AccountOf(ledger, tx'.client)
                 a == Units(unwrap_or_default(tx'.amount))
             IN  /\ ledger'[tx'.client] =
                       IF before.locked THEN before
                       ELSE [before EXCEPT !.available = @ + a, !.total = @ + a]
                 /\ tx_history' = insert(tx_history, tx'.tx, tx')
                 /\ tx_history'[tx'.tx].state = "Open"
       /\ (RunStep /\ tx'._type \in {"Withdrawal", "Dispute", "Resolve", "Chargeback"})
          => DOMAIN tx_history' = DOMAIN tx_history
       /\ \A k \in DOMAIN tx_history :
             /\ k \in DOMAIN tx_history'
             /\ StoredFields(tx_history'[k]) = StoredFields(tx_history[k])
             /\ tx_history[k].tx = k]_vars

\* C18 witness: `run` has applied a Withdrawal of a part of the one deposit
\* of a client; its TxId is not in history, which still holds the deposit
\* under its TxId with its amount.
C18_Witness ==
    /\ pc = "loop"
    /\ tx._type = "Withdrawal"
    /\ Units(unwrap_or_default(tx.amount)) > 0
    /\ tx.tx \notin DOMAIN tx_history
    /\ \E k \in DOMAIN tx_history :
          /\ tx_history[k].client = tx.client
          /\ tx_history[k].tx = k
          /\ tx_history[k].state = "Open"
          /\ ledger[tx.client].available =
                Units(unwrap_or_default(tx_history[k].amount))
                   - Units(unwrap_or_default(tx.amount))
    /\ ledger[tx.client].available > 0
    /\ ledger[tx.client].held = 0

\* The history entries of h that differ in h2.
ChangedEntries(h, h2) == {k \in DOMAIN h : k \notin DOMAIN h2 \/ h2[k] # h[k]}

\* C19: cross-account isolation: a row of client c changes at most the
\* account of c and at most the disputeState of one history deposit, owned
\* by c; the account of every other client and every history entry owned by
\* another client are unchanged by the row.
C19_CrossAccountIsolation ==
    [][RunStep =>
        /\ \A c \in ClientIds \ {tx'.client} :
              /\ c \in DOMAIN ledger' <=> c \in DOMAIN ledger
              /\ c \in DOMAIN ledger => ledger'[c] = ledger[c]
        /\ \A k \in DOMAIN tx_history :
              tx_history[k].client # tx'.client
                 => k \in DOMAIN tx_history' /\ tx_history'[k] = tx_history[k]
        /\ Cardinality(ChangedEntries(tx_history, tx_history')) <= 1
        /\ \A k \in ChangedEntries(tx_history, tx_history') :
              /\ k = tx'.tx
              /\ tx_history[k].client = tx'.client
              /\ k \in DOMAIN tx_history'
              /\ StoredFields(tx_history'[k]) = StoredFields(tx_history[k])]_vars

\* C19 witness: `run` has applied a Deposit of positive amount to the account
\* of one client while another client has an account with funds and an Open
\* deposit in history: both have their own funds and their own deposit.
C19_Witness ==
    /\ pc = "loop"
    /\ tx._type = "Deposit"
    /\ tx.tx \in DOMAIN tx_history
    /\ tx_history[tx.tx] = tx
    /\ ledger[tx.client].available = Units(unwrap_or_default(tx.amount))
    /\ ledger[tx.client].available > 0
    /\ \E c \in DOMAIN ledger \ {tx.client} : \E k \in DOMAIN tx_history :
          /\ tx_history[k].client = c
          /\ tx_history[k].state = "Open"
          /\ ledger[c].available = Units(unwrap_or_default(tx_history[k].amount))
          /\ ledger[c].available > 0

\* The clients that have an account after a row t is handled: those that had
\* one, and t's client if t passes validation and the run goes on.
ClientsAfterRow(clients, t, goes_on) ==
    clients \cup (IF valid_tx_data(t) /\ goes_on THEN {t.client} ELSE {})

\* C20: at the normal end of the input the snapshot has exactly one row per
\* client that was the client of at least one row that passed validation, the
\* account having been created with available = held = total = 0 and
\* locked = false when the client was first seen; a client whose rows were
\* all skipped as cross-client references or were no-ops has a row, a client
\* whose rows were all rejected by the validation of the amount has none.
C20_SnapshotClients ==
    [][/\ RunStep =>
            /\ DOMAIN ledger' = ClientsAfterRow(DOMAIN ledger, tx', pc' = "loop")
            /\ (tx'.client \in DOMAIN ledger' \ DOMAIN ledger /\ tx'._type \in DisputeFamily)
                  => ledger'[tx'.client] = AccountNew(tx'.client)
       /\ (pc = "loop" /\ pc' = "ok") =>
            /\ BagToSet(output') = {ledger[c] : c \in DOMAIN ledger}
            /\ BagCardinality(output') = Cardinality(DOMAIN ledger)
            /\ \A c \in DOMAIN ledger : ledger[c].client = c]_vars

\* Row t fails the uniqueness check of `run` against history h.
UniquenessViolation(t, h) ==
    /\ ~is_sign_negative(unwrap_or_default(t.amount))
    /\ requires_unique_tx(t)
    /\ t.tx \in DOMAIN h

\* C21: the run terminates on every finite input: rows are handled one at a
\* time in the order of the input, each once, and the run ends either by
\* completion (every row consumed, the snapshot written) or by a fatal abort
\* at the first uniqueness violation, after which no row changes any account
\* or history entry.
C21_RunTerminates ==
    /\ [][/\ pc = "loop" =>
               \/ /\ read' = read + 1
                  /\ output' = output
                  /\ pc' \in {"loop", "err"}
               \/ /\ pc' = "ok" /\ read' = read
                  /\ UNCHANGED <<ledger, tx_history>>
                  /\ output' = serialize_values(ledger, DOMAIN ledger)
          /\ RunStep => (pc' = "err" <=> UniquenessViolation(tx', tx_history))
          /\ pc \in {"ok", "err"} => UNCHANGED <<ledger, tx_history, read, output, pc>>]_vars
    /\ (pc = "loop") ~> (pc \in {"ok", "err"})

\* C21 witness: a run has consumed an input of the greatest modelled length,
\* has written one row per account and has returned Ok.
C21_Witness ==
    /\ pc = "ok"
    /\ read = MaxDeepEvents
    /\ DOMAIN ledger # {}
    /\ BagCardinality(output) = Cardinality(DOMAIN ledger)

\* C22: the amount is validated before the uniqueness check: a Deposit or
\* Withdrawal of negative amount is skipped and the run goes on, also when
\* its TxId is that of a deposit in history; the skipped row leaves the
\* accounts, the history and the set of known TxIds as they were: its TxId
\* is not remembered and no account is created for its client.
C22_NegativeAmountSkippedFirst ==
    [][(/\ RunStep
        /\ tx'._type \in {"Deposit", "Withdrawal"}
        /\ is_sign_negative(unwrap_or_default(tx'.amount)))
       => /\ pc' = "loop"
          /\ ledger' = ledger
          /\ DOMAIN ledger' = DOMAIN ledger
          /\ tx_history' = tx_history
          /\ DOMAIN tx_history' = DOMAIN tx_history
          /\ output' = output]_vars

\* C22 witness: `run` has skipped a Deposit of negative amount whose TxId is
\* that of a deposit in history; the run goes on, the stored deposit is the
\* earlier one and the client of the skipped row has no account.
C22_Witness ==
    /\ pc = "loop"
    /\ tx._type = "Deposit"
    /\ is_sign_negative(unwrap_or_default(tx.amount))
    /\ tx.tx \in DOMAIN tx_history
    /\ tx_history[tx.tx] # tx
    /\ tx.client \notin DOMAIN ledger

\* The rows dispute, chargeback of client c for TxId k.
DisputeThenChargeback(c, k) ==
    <<Row("Dispute", c, k, << >>), Row("Chargeback", c, k, << >>)>>

\* C23: a Deposit that arrives on a locked account leaves the balances as
\* they were and is still inserted in history in state Open; a Dispute of it
\* therefore takes effect (available -= amount, held += amount), and the
\* Chargeback that follows takes from total an amount that was never credited.
C23_DepositOnLockedAccountIsStored ==
    [][/\ (/\ RunStep /\ tx'._type = "Deposit"
           /\ ~is_sign_negative(unwrap_or_default(tx'.amount))
           /\ tx'.tx \notin DOMAIN tx_history
           /\ tx'.client \in DOMAIN ledger /\ ledger[tx'.client].locked)
          => LET c == tx'.client
                 a == Units(unwrap_or_default(tx'.amount))
                 end == run_loop(ledger', tx_history', DisputeThenChargeback(c, tx'.tx))
             IN  /\ ledger'[c] = ledger[c]
                 /\ tx_history' = insert(tx_history, tx'.tx, tx')
                 /\ tx_history'[tx'.tx].state = "Open"
                 /\ a > 0 =>
                       /\ end.pc = "loop"
                       /\ end.ledger[c] = [ledger[c] EXCEPT !.available = @ - a,
                                                            !.total = @ - a]
                       /\ end.tx_history[tx'.tx].state = "ChargedBack"
       /\ (/\ RunStep
           /\ tx._type = "Deposit" /\ tx.tx \in DOMAIN tx_history /\ tx_history[tx.tx] = tx
           /\ ledger[tx.client].locked
           /\ Units(unwrap_or_default(tx.amount)) > 0
           /\ tx' = Row("Dispute", tx.client, tx.tx, << >>))
          => LET a == Units(unwrap_or_default(tx.amount)) IN
             /\ ledger'[tx.client] =
                   [ledger[tx.client] EXCEPT !.available = @ - a, !.held = @ + a]
             /\ tx_history'[tx.tx].state = "ActiveDispute"]_vars

\* C23 witness: six rows have been read, the last a Chargeback; the client's
\* two deposits are both ChargedBack, which takes a deposit, its dispute and
\* its chargeback each, and total is below zero by the amount of the deposit
\* charged back last: that deposit arrived after the lock and was not
\* credited.
C23_Witness ==
    /\ pc = "loop"
    /\ read = 6
    /\ tx._type = "Chargeback"
    /\ tx.tx \in DOMAIN tx_history
    /\ Cardinality(DOMAIN tx_history) = 2
    /\ \A k \in DOMAIN tx_history :
          /\ tx_history[k].client = tx.client
          /\ tx_history[k].state = "ChargedBack"
    /\ ledger[tx.client].locked
    /\ ledger[tx.client].held = 0
    /\ ledger[tx.client].total = 0 - Units(unwrap_or_default(tx_history[tx.tx].amount))
    /\ ledger[tx.client].available = ledger[tx.client].total

\* The TxIds of the history deposits of client c that are in state s.
DepositsIn(h, c, s) ==
    {k \in DOMAIN h : h[k]._type = "Deposit" /\ h[k].client = c /\ h[k].state = s}

\* The sum of the amounts of the entries of h under the TxIds ks.
RECURSIVE SumOfAmounts(_, _)
SumOfAmounts(h, ks) ==
    IF ks = {} THEN 0
    ELSE LET k == CHOOSE k \in ks : TRUE
         IN  Units(unwrap_or_default(h[k].amount)) + SumOfAmounts(h, ks \ {k})

\* C24: in every reachable state of `run`, the held of each account is the
\* sum of the amounts of the history deposits of its client that are in
\* state ActiveDispute; so held is never negative.
C24_HeldIsSumOfDisputedDeposits ==
    \A c \in DOMAIN ledger :
       /\ ledger[c].held = SumOfAmounts(tx_history, DepositsIn(tx_history, c, "ActiveDispute"))
       /\ ledger[c].held >= 0

\* C24 witness: a client has two deposits under dispute at once: held is the
\* sum of the two amounts, more than either.
C24_Witness ==
    /\ pc = "loop"
    /\ \E c \in DOMAIN ledger :
          LET ks == DepositsIn(tx_history, c, "ActiveDispute") IN
          /\ Cardinality(ks) = 2
          /\ \A k \in ks : ledger[c].held > Units(unwrap_or_default(tx_history[k].amount))
          /\ ledger[c].held = SumOfAmounts(tx_history, ks)

\* C25: in every reachable state of `run`, an account is locked if and only
\* if history holds a deposit of its client in state ChargedBack.
C25_LockedIffChargedBackDeposit ==
    \A c \in DOMAIN ledger :
       ledger[c].locked <=> DepositsIn(tx_history, c, "ChargedBack") # {}

\* C25 witness: one client's account is locked and a deposit of that client is
\* ChargedBack, while another client has an account that is not locked and
\* no deposit of that client is ChargedBack.
C25_Witness ==
    /\ pc = "loop"
    /\ \E c \in DOMAIN ledger : \E c2 \in DOMAIN ledger :
          /\ ledger[c].locked
          /\ DepositsIn(tx_history, c, "ChargedBack") # {}
          /\ ~ledger[c2].locked
          /\ DepositsIn(tx_history, c2, "ChargedBack") = {}

\* C26: available becomes negative only through a Dispute: in every step of
\* `run` that takes the available of an account from >= 0 to < 0 the row is
\* a Dispute, and so is the event of every such call of apply_tx with a
\* validated event; no Deposit, Withdrawal, Resolve or Chargeback takes
\* available from non-negative to negative.
C26_OnlyDisputeOverdraws ==
    [][/\ RunStep =>
            \A c \in DOMAIN ledger' :
               (AccountOf(ledger, c).available >= 0 /\ ledger'[c].available < 0)
               => tx'._type = "Dispute" /\ tx'.client = c
       /\ (ApplyStep /\ valid_tx_data(tx'))
          => ((account.available >= 0 /\ account'.available < 0)
                 => tx'._type = "Dispute")]_vars

\* C26 witness: the third row of a run is a Dispute that has taken available
\* below zero: available plus the amount now held, which is what was
\* available before the Dispute, is not negative.
C26_Witness ==
    /\ pc = "loop"
    /\ read = 3
    /\ tx._type = "Dispute"
    /\ tx.tx \in DOMAIN tx_history
    /\ tx_history[tx.tx].client = tx.client
    /\ tx_history[tx.tx].state = "ActiveDispute"
    /\ DepositsIn(tx_history, tx.client, "ActiveDispute") = {tx.tx}
    /\ ledger[tx.client].available < 0
    /\ ledger[tx.client].available + ledger[tx.client].held >= 0
====
